---- MODULE Spec2Model ----
(***************************************************************************)
(* Tello drone HUD: the Xbox controller monitor thread                     *)
(* (xbox_one_controller.py), the Tk callbacks update_joystick and          *)
(* video_stream with the takeoff/land command threads (app.py), and the    *)
(* battery sampler thread with the battery gauge (indicators.py).          *)
(***************************************************************************)
EXTENDS Integers, Sequences, FiniteSets, TLC

\* ------------------------------------------------------------------ bounds
\* number of gamepad events the monitor thread applies in one run
MaxEvents == 3
\* number of takeoff/land command threads that may be in flight at once
MaxCmdThreads == 2

\* raw axis readings fed to the monitor thread: both ends of the range, the
\* half-scale reading, and a reading inside the noise band (4915 -> 14 -> 0)
RawAxisSamples == {-32768, 4915, 16384, 32768}
\* battery percentages the drone reports
BatterySamples == {5, 55, 100}

\* ------------------------------------------------- xbox_one_controller.py
MAX_TRIG_VAL == 256
MAX_JOY_VAL == 32768

Abs(v) == IF v >= 0 THEN v ELSE -v

IntTrunc_floor(n, d) == n \div d

\* Python's int() of a quotient: truncation toward zero (d > 0)
IntTrunc(n, d) == IF n >= 0 THEN n \div d ELSE -((-n) \div d)

normalize_trig(value) == IntTrunc(value * 100, MAX_TRIG_VAL)

\* int((value / MAX_JOY_VAL) * 100); the quotient by 2^15 is exact in floats
normalize(value) == IntTrunc(value * 100, MAX_JOY_VAL)

filter_noise_strict(value) == IF Abs(value) < 15 THEN 0 ELSE value

filter_noise(value) == IF Abs(value) <= 15 THEN 0 ELSE value

AxisCodes == {"ABS_Y", "ABS_X", "ABS_RY", "ABS_RX"}
TriggerCodes == {"ABS_Z", "ABS_RZ"}
ButtonCodes == {"BTN_START", "BTN_SELECT"}

\* the channels of XboxController that the modelled events can change; every
\* other channel keeps its initial 0
InitController ==
    [LeftJoystickY |-> 0, LeftJoystickX |-> 0,
     RightJoystickY |-> 0, RightJoystickX |-> 0,
     LeftTrigger |-> 0, RightTrigger |-> 0,
     Back |-> 0, Start |-> 0]

\* the if/elif chain of _monitor_controller applied to one event
ApplyEvent(c, code, state) ==
    IF code = "ABS_Y" THEN [c EXCEPT !.LeftJoystickY = filter_noise(normalize(state))]
    ELSE IF code = "ABS_X" THEN [c EXCEPT !.LeftJoystickX = filter_noise(normalize(state))]
    ELSE IF code = "ABS_RY" THEN [c EXCEPT !.RightJoystickY = filter_noise(normalize(state))]
    ELSE IF code = "ABS_RX" THEN [c EXCEPT !.RightJoystickX = filter_noise(normalize(state))]
    ELSE IF code = "ABS_Z" THEN [c EXCEPT !.LeftTrigger = filter_noise(normalize(state))]
    ELSE IF code = "ABS_RZ" THEN [c EXCEPT !.RightTrigger = filter_noise(normalize(state))]
    ELSE IF code = "BTN_START" THEN [c EXCEPT !.Start = state]
    ELSE IF code = "BTN_SELECT" THEN [c EXCEPT !.Back = state]
    ELSE c

read_swapped(c) ==
    << c.LeftJoystickY, c.LeftJoystickX, c.RightJoystickY, c.RightJoystickX,
       c.LeftTrigger, c.RightTrigger,
       0, 0, 0, 0, 0, 0, 0, 0,
       c.Back, c.Start,
       0, 0, 0, 0 >>

\* XboxController.read(): the 20-entry list; Python index i is entry i + 1
read(c) ==
    << c.LeftJoystickX, c.LeftJoystickY, c.RightJoystickX, c.RightJoystickY,
       c.LeftTrigger, c.RightTrigger,
       0, 0, 0, 0, 0, 0, 0, 0,
       c.Back, c.Start,
       0, 0, 0, 0 >>

\* the attribute loads of read() that can see a change, in list order
ReadOrder ==
    << "LeftJoystickX", "LeftJoystickY", "RightJoystickX", "RightJoystickY",
       "Back", "Start" >>

\* the values read() returns for those channels when nothing runs in between
FieldValues(c) == [i \in 1..Len(ReadOrder) |-> c[ReadOrder[i]]]

\* ----------------------------------------------------------------- app.py
Zero == <<0, 0, 0, 0>>

\* joystick_values[14], the value update_joystick names start_button
start_button(jv) == jv[15]

MapAxes_swapped(jv) == << jv[1], jv[4], jv[2], jv[3] >>

\* rc_controls[0..3] = right_joystick_x, right_joystick_y, left_joystick_y,
\* left_joystick_x, with left_joystick_x = joystick_values[0] and so on
MapAxes(jv) == << jv[3], jv[4], jv[2], jv[1] >>

SendRc_omit_hover(rc) == IF rc # Zero THEN << rc >> ELSE << >>

\* the send_rc_control calls of one tick: the if/else on rc_controls
SendRc(rc) == IF rc # Zero THEN << rc >> ELSE << Zero >>

\* takeoff_land(): the command chosen from drone.is_flying
ToggleCommand(isFlying) == IF isFlying THEN "land" ELSE "takeoff"

\* ----------------------------------------------------------- indicators.py
BatteryAfterRead_clear(old, readOk, value) == IF readOk THEN value ELSE 0

\* self.battery = self.drone.get_battery(): no assignment when the call raises
BatteryAfterRead(old, readOk, value) == IF readOk THEN value ELSE old

NoFrame == [color |-> "none", segments |-> 0, label |-> -1]

draw_battery_indicator_low3(b) ==
    IF b >= 70 THEN
        [color |-> "green",
         segments |-> IF b = 100 THEN 10
                      ELSE IF 90 <= b /\ b < 100 THEN 9
                      ELSE IF 80 <= b /\ b < 90 THEN 8
                      ELSE 7,
         label |-> b]
    ELSE IF 40 <= b /\ b < 70 THEN
        [color |-> "yellow",
         segments |-> IF b >= 60 THEN 6
                      ELSE IF 50 <= b /\ b < 60 THEN 5
                      ELSE 4,
         label |-> b]
    ELSE
        [color |-> "red",
         segments |-> IF b >= 30 THEN 3
                      ELSE IF 20 <= b /\ b < 30 THEN 2
                      ELSE 3,
         label |-> b]

draw_battery_indicator_above70(b) ==
    IF b > 70 THEN
        [color |-> "green",
         segments |-> IF b = 100 THEN 10
                      ELSE IF 90 <= b /\ b < 100 THEN 9
                      ELSE IF 80 <= b /\ b < 90 THEN 8
                      ELSE 7,
         label |-> b]
    ELSE IF 40 <= b /\ b <= 70 THEN
        [color |-> "yellow",
         segments |-> IF b >= 70 THEN 7
                      ELSE IF b >= 60 THEN 6
                      ELSE IF 50 <= b /\ b < 60 THEN 5
                      ELSE 4,
         label |-> b]
    ELSE
        [color |-> "red",
         segments |-> IF b >= 30 THEN 3
                      ELSE IF 20 <= b /\ b < 30 THEN 2
                      ELSE 1,
         label |-> b]

\* draw_battery_indicator: band colour, number of lines drawn, label text
draw_battery_indicator(b) ==
    IF b >= 70 THEN
        [color |-> "green",
         segments |-> IF b = 100 THEN 10
                      ELSE IF 90 <= b /\ b < 100 THEN 9
                      ELSE IF 80 <= b /\ b < 90 THEN 8
                      ELSE 7,
         label |-> b]
    ELSE IF 40 <= b /\ b < 70 THEN
        [color |-> "yellow",
         segments |-> IF b >= 60 THEN 6
                      ELSE IF 50 <= b /\ b < 60 THEN 5
                      ELSE 4,
         label |-> b]
    ELSE
        [color |-> "red",
         segments |-> IF b >= 30 THEN 3
                      ELSE IF 20 <= b /\ b < 30 THEN 2
                      ELSE 1,
         label |-> b]

\* ------------------------------------------------------------------ state
VARIABLES
    ctrl,            \* XboxController channel fields
    monitorPc,       \* monitor thread: "polling" | "dead"
    nEvents,         \* events applied so far
    mainPc,          \* main thread: "start_vs" | "start_uj" | "mainloop" | "uj_sleep" |
                     \*   "vs_draw" | "cleanup_end" | "exited"
    ujPending,       \* root.after(50, update_joystick) is scheduled
    vsPending,       \* cap_lbl.after(5, video_stream) is scheduled
    joystick_values, \* the list update_joystick last read
    rc_controls,     \* App.rc_controls
    flying,          \* App.flying
    is_flying,       \* drone.is_flying
    cmdThreads,      \* takeoff/land threads started and not yet finished
    update,          \* Indicators.update
    battery,         \* Indicators.battery
    samplerPc,       \* sampler thread: "start" | "loop" | "poll" | "dead" | "done"
    rendered,        \* the gauge drawn on the last frame
    \* history of the run, read only by the properties
    tickSends,       \* send_rc_control calls of the current or last tick
    tickStale,       \* the last tick read its snapshot after the monitor thread died
    lastDispatch,    \* last command takeoff_land started: "none" | "takeoff" | "land"
    edgeGrounded,    \* the last rising edge of the toggle level came with is_flying false
    edgeSeen,        \* a tick has read the level 1 since that edge
    pressSeen,       \* a tick has read the level 1 and the level has not changed since
    takeoffsSinceEdge, \* takeoff dispatches since that edge, counted up to 2
    lastGood,        \* last battery value get_battery returned
    staleFrame,      \* a frame was drawn after the sampler thread died
    lastRaw,         \* last raw reading delivered on each axis code
    tickRaw,         \* lastRaw at the moment the last tick read the controller
    \* a caller inside XboxController.read()
    readPos,         \* 0: no read in progress; i: ReadOrder[i] is loaded next
    readList,        \* values loaded so far; after the return, the values returned
    readSeen,        \* the controller states that existed during that read
    \* App.cleanup
    endCalled,       \* drone.end(): "no" | "ok" | "failed"
    quitCalled,      \* root.quit() and exit() were reached
    \* one application of a pure function
    pureOp,          \* "none" | "normalize" | "filter_noise" | "draw" | a trigger code
    pureIn,          \* its argument
    pureOut,         \* its result
    \* a call of draw_battery_indicator in progress
    drawPc,          \* "idle" | "test70" | "test40" | "seg1" | "seg2" | "seg3" | "label"
    drawFrom,        \* where the main thread was when video_stream was entered
    drawn,           \* the gauge drawn so far by that call
    drawSeen,        \* the battery values that existed during that call
    \* the callbacks waiting in the Tk `after` queue
    ujCallbacks,     \* update_joystick callbacks
    vsCallbacks      \* video_stream callbacks

ctlVars == << ctrl, monitorPc, nEvents >>
appVars == << mainPc, ujPending, vsPending, joystick_values, rc_controls, flying >>
droneVars == << is_flying, cmdThreads >>
indVars == << update, battery, samplerPc, rendered >>
histVars == << tickSends, tickStale, lastDispatch, edgeGrounded, edgeSeen,
               pressSeen, takeoffsSinceEdge, lastGood, staleFrame >>
rawVars == << lastRaw, tickRaw >>
rdVars == << readPos, readList, readSeen >>
shutVars == << endCalled, quitCalled >>
pureVars == << pureOp, pureIn, pureOut >>
drawVars == << drawPc, drawFrom, drawn, drawSeen >>
tkVars == << ujCallbacks, vsCallbacks >>
vars == << ctlVars, appVars, droneVars, indVars, histVars,
           rawVars, rdVars, shutVars, pureVars, drawVars, tkVars >>

InitBase ==
    /\ ctrl = InitController
    /\ monitorPc = "polling"
    /\ nEvents = 0
    /\ mainPc = "start_vs"
    /\ ujPending = FALSE
    /\ vsPending = FALSE
    /\ joystick_values = read(InitController)
    /\ rc_controls = Zero
    /\ flying = FALSE
    /\ is_flying = FALSE
    /\ cmdThreads = [takeoff |-> 0, land |-> 0]
    /\ update = FALSE
    /\ battery \in BatterySamples
    /\ samplerPc = "start"
    /\ rendered = NoFrame
    /\ tickSends = << >>
    /\ tickStale = FALSE
    /\ lastDispatch = "none"
    /\ edgeGrounded = FALSE
    /\ edgeSeen = FALSE
    /\ pressSeen = FALSE
    /\ takeoffsSinceEdge = 0
    /\ lastGood = battery
    /\ staleFrame = FALSE
    /\ lastRaw = [code \in AxisCodes |-> 0]
    /\ tickRaw = [code \in AxisCodes |-> 0]
    /\ readPos = 0
    /\ readList = FieldValues(InitController)
    /\ readSeen = {InitController}
    /\ endCalled = "no"
    /\ quitCalled = FALSE
    /\ pureOp = "none"
    /\ pureOut = 0
    /\ drawPc = "idle"
    /\ drawFrom = "start_vs"
    /\ drawn = NoFrame
    /\ drawSeen = {battery}
    /\ ujCallbacks = 0
    /\ vsCallbacks = 0

Init == InitBase /\ pureIn = 0

\* ------------------------------------------- XboxController monitor thread
ToggleLevel(c) == start_button(read(c))

\* one event of a get_gamepad() batch, applied by _monitor_controller; a
\* button event reports a change of that button's level
MonitorEvent(code, state) ==
    /\ monitorPc = "polling"
    /\ nEvents < MaxEvents
    /\ code = "BTN_START" => state = 1 - ctrl.Start
    /\ code = "BTN_SELECT" => state = 1 - ctrl.Back
    /\ ctrl' = ApplyEvent(ctrl, code, state)
    /\ nEvents' = nEvents + 1
    /\ LET up == ToggleLevel(ctrl) = 0 /\ ToggleLevel(ctrl') = 1
           changed == ToggleLevel(ctrl) # ToggleLevel(ctrl')
       IN /\ edgeGrounded' = IF up THEN ~is_flying ELSE edgeGrounded
          /\ edgeSeen' = IF up THEN FALSE ELSE edgeSeen
          /\ takeoffsSinceEdge' = IF up THEN 0 ELSE takeoffsSinceEdge
          /\ pressSeen' = IF changed THEN FALSE ELSE pressSeen
    /\ lastRaw' = IF code \in AxisCodes THEN [lastRaw EXCEPT ![code] = state] ELSE lastRaw
    /\ readSeen' = IF readPos # 0 THEN readSeen \cup {ctrl'} ELSE readSeen
    /\ UNCHANGED << monitorPc, appVars, droneVars, indVars,
                    tickSends, tickStale, lastDispatch, lastGood, staleFrame,
                    tickRaw, readPos, readList, shutVars, pureVars, drawVars, tkVars >>

\* get_gamepad() raises (device unplugged or read error): nothing in
\* _monitor_controller catches it, so the thread ends
MonitorFail ==
    /\ monitorPc = "polling"
    /\ monitorPc' = "dead"
    /\ UNCHANGED << ctrl, nEvents, appVars, droneVars, indVars, histVars,
                    rawVars, rdVars, shutVars, pureVars, drawVars, tkVars >>

\* ------------------------------------------------------ App.update_joystick
\* Tk takes a callback out of its queue when it runs it; the first call of
\* each loop comes from run_app and takes none
TakeCallback(n, pc) == IF pc = "mainloop" THEN n - 1 ELSE n

AfterSchedule_twice(n, ok) == IF ok THEN n + 2 ELSE n

\* root.after(50, self.update_joystick) / cap_lbl.after(5, self.video_stream)
\* as the last statement of the try block: one more callback in the queue,
\* unless an exception skipped it
AfterSchedule(n, ok) == IF ok THEN n + 1 ELSE n

UJEnabled == mainPc = "start_uj" \/ (mainPc = "mainloop" /\ ujPending)

CmdThreadCount == cmdThreads.takeoff + cmdThreads.land

\* lines 91-111: map, send, reschedule; sendOk = FALSE is send_rc_control
\* raising, which skips root.after and lands in the except clause
SendAndReschedule(jv, sendOk) ==
    /\ rc_controls' = MapAxes(jv)
    /\ tickSends' = SendRc(MapAxes(jv))
    /\ ujPending' = sendOk
    /\ mainPc' = "mainloop"

\* a tick whose snapshot has start_button = 0: the whole callback
UpdateJoystick(sendOk) ==
    /\ UJEnabled
    /\ LET jv == read(ctrl)
       IN /\ start_button(jv) = 0
          /\ joystick_values' = jv
          /\ SendAndReschedule(jv, sendOk)
    /\ tickStale' = (monitorPc = "dead")
    /\ tickRaw' = lastRaw
    /\ ujCallbacks' = AfterSchedule(TakeCallback(ujCallbacks, mainPc), sendOk)
    /\ UNCHANGED << ctlVars, vsPending, flying, droneVars, indVars,
                    lastDispatch, edgeGrounded, edgeSeen, pressSeen, takeoffsSinceEdge,
                    lastGood, staleFrame, lastRaw, rdVars, shutVars, pureVars, drawVars, vsCallbacks >>

\* a tick whose snapshot has start_button = 1, up to the time.sleep(0.15):
\* takeoff_land() starts a thread for the command chosen from drone.is_flying
UpdateJoystickToggle ==
    /\ UJEnabled
    /\ CmdThreadCount < MaxCmdThreads
    /\ LET jv == read(ctrl)
           cmd == ToggleCommand(is_flying)
       IN /\ start_button(jv) = 1
          /\ joystick_values' = jv
          /\ cmdThreads' = [cmdThreads EXCEPT ![cmd] = @ + 1]
          /\ lastDispatch' = cmd
          /\ takeoffsSinceEdge' =
                IF cmd = "takeoff" /\ takeoffsSinceEdge < 2
                THEN takeoffsSinceEdge + 1 ELSE takeoffsSinceEdge
    /\ mainPc' = "uj_sleep"
    /\ ujPending' = FALSE
    /\ tickSends' = << >>
    /\ tickStale' = (monitorPc = "dead")
    /\ edgeSeen' = TRUE
    /\ pressSeen' = TRUE
    /\ tickRaw' = lastRaw
    /\ ujCallbacks' = TakeCallback(ujCallbacks, mainPc)
    /\ UNCHANGED << ctlVars, vsPending, rc_controls, flying, is_flying, indVars,
                    edgeGrounded, lastGood, staleFrame, lastRaw, rdVars, shutVars,
                    pureVars, drawVars, vsCallbacks >>

\* the same tick after the sleep returns
UpdateJoystickResume(sendOk) ==
    /\ mainPc = "uj_sleep"
    /\ SendAndReschedule(joystick_values, sendOk)
    /\ ujCallbacks' = AfterSchedule(ujCallbacks, sendOk)
    /\ UNCHANGED << ctlVars, vsPending, joystick_values, flying, droneVars, indVars,
                    tickStale, lastDispatch, edgeGrounded, edgeSeen, pressSeen,
                    takeoffsSinceEdge, lastGood, staleFrame,
                    rawVars, rdVars, shutVars, pureVars, drawVars, vsCallbacks >>

\* the thread started by takeoff_land(): drone.takeoff() / drone.land() sets
\* drone.is_flying when the command is acknowledged and raises otherwise
CmdThreadFinish(cmd, ack) ==
    /\ cmdThreads[cmd] > 0
    /\ cmdThreads' = [cmdThreads EXCEPT ![cmd] = @ - 1]
    /\ is_flying' = IF ack THEN (cmd = "takeoff") ELSE is_flying
    /\ UNCHANGED << ctlVars, appVars, indVars, histVars,
                    rawVars, rdVars, shutVars, pureVars, drawVars, tkVars >>

\* -------------------------------------------------------- App.video_stream
\* frameOk = FALSE is an exception while handling the frame (no frame yet,
\* conversion error): the except clause logs it and nothing is rescheduled
VSEnabled == mainPc = "start_vs" \/ (mainPc = "mainloop" /\ vsPending)

AfterVideo_abort(pc, frameOk) ==
    IF ~frameOk /\ pc = "start_vs" THEN "exited"
    ELSE IF pc = "start_vs" THEN "start_uj" ELSE "mainloop"

\* where the main thread goes when video_stream returns: its try/except keeps
\* an exception from reaching run_app or the Tk loop
AfterVideo(pc, frameOk) == IF pc = "start_vs" THEN "start_uj" ELSE "mainloop"

VideoStream(frameOk) ==
    /\ VSEnabled
    /\ rendered' = IF frameOk THEN draw_battery_indicator(battery) ELSE rendered
    /\ staleFrame' = (staleFrame \/ (frameOk /\ samplerPc = "dead"))
    /\ vsPending' = frameOk
    /\ vsCallbacks' = AfterSchedule(TakeCallback(vsCallbacks, mainPc), frameOk)
    /\ mainPc' = AfterVideo(mainPc, frameOk)
    /\ UNCHANGED << ctlVars, ujPending, joystick_values, rc_controls, flying,
                    droneVars, update, battery, samplerPc,
                    tickSends, tickStale, lastDispatch, edgeGrounded, edgeSeen,
                    pressSeen, takeoffsSinceEdge, lastGood,
                    rawVars, rdVars, shutVars, pureVars, drawVars, ujCallbacks >>

\* ------------------- draw_battery_indicator, one load of self.battery a step
\* the first test of the if/elif chain inside a band, on the value b loaded for
\* it: the number of lines drawn, or 0 when the test fails
FirstTest(color, b) ==
    IF color = "green" THEN (IF b = 100 THEN 10 ELSE 0)
    ELSE IF color = "yellow" THEN (IF b >= 60 THEN 6 ELSE 0)
    ELSE (IF b >= 30 THEN 3 ELSE 0)

\* the second test; the yellow and red bands end with an else after it
SecondTest(color, b) ==
    IF color = "green" THEN (IF 90 <= b /\ b < 100 THEN 9 ELSE 0)
    ELSE IF color = "yellow" THEN (IF 50 <= b /\ b < 60 THEN 5 ELSE 4)
    ELSE (IF 20 <= b /\ b < 30 THEN 2 ELSE 1)

\* the third test, which only the green band has, and its else
ThirdTest(b) == IF 80 <= b /\ b < 90 THEN 8 ELSE 7

\* the state of the call after its next load of self.battery returned b
DrawStep(pc, d, b) ==
    IF pc = "test70" THEN
        IF b >= 70 THEN [pc |-> "seg1", drawn |-> [d EXCEPT !.color = "green"]]
        ELSE [pc |-> "test40", drawn |-> d]
    ELSE IF pc = "test40" THEN
        [pc |-> "seg1",
         drawn |-> [d EXCEPT !.color = IF 40 <= b /\ b < 70 THEN "yellow" ELSE "red"]]
    ELSE IF pc = "seg1" THEN
        IF FirstTest(d.color, b) # 0
        THEN [pc |-> "label", drawn |-> [d EXCEPT !.segments = FirstTest(d.color, b)]]
        ELSE [pc |-> "seg2", drawn |-> d]
    ELSE IF pc = "seg2" THEN
        IF SecondTest(d.color, b) # 0
        THEN [pc |-> "label", drawn |-> [d EXCEPT !.segments = SecondTest(d.color, b)]]
        ELSE [pc |-> "seg3", drawn |-> d]
    ELSE IF pc = "seg3" THEN
        [pc |-> "label", drawn |-> [d EXCEPT !.segments = ThirdTest(b)]]
    ELSE
        [pc |-> "idle", drawn |-> [d EXCEPT !.label = b]]

\* video_stream runs, has its frame and enters draw_battery_indicator, which
\* draws the two white rectangles
DrawBegin ==
    /\ VSEnabled
    /\ drawPc = "idle"
    /\ drawPc' = "test70"
    /\ drawFrom' = mainPc
    /\ drawn' = NoFrame
    /\ drawSeen' = {battery}
    /\ mainPc' = "vs_draw"
    /\ vsPending' = FALSE
    /\ vsCallbacks' = TakeCallback(vsCallbacks, mainPc)
    /\ UNCHANGED << ctlVars, ujPending, joystick_values, rc_controls, flying,
                    droneVars, indVars, histVars, rawVars, rdVars, shutVars,
                    pureVars, ujCallbacks >>

\* the next test of the call, up to the choice of the number of lines
DrawRead ==
    /\ drawPc \in {"test70", "test40", "seg1", "seg2", "seg3"}
    /\ drawPc' = DrawStep(drawPc, drawn, battery).pc
    /\ drawn' = DrawStep(drawPc, drawn, battery).drawn
    /\ UNCHANGED << ctlVars, appVars, droneVars, indVars, histVars, rawVars,
                    rdVars, shutVars, pureVars, drawFrom, drawSeen, tkVars >>

\* the putText of the label, after which video_stream shows the frame,
\* schedules itself and returns
DrawLabel ==
    /\ drawPc = "label"
    /\ drawPc' = DrawStep(drawPc, drawn, battery).pc
    /\ drawn' = DrawStep(drawPc, drawn, battery).drawn
    /\ rendered' = drawn'
    /\ staleFrame' = (staleFrame \/ samplerPc = "dead")
    /\ vsPending' = TRUE
    /\ vsCallbacks' = AfterSchedule(vsCallbacks, TRUE)
    /\ mainPc' = AfterVideo(drawFrom, TRUE)
    /\ UNCHANGED << ctlVars, ujPending, joystick_values, rc_controls, flying,
                    droneVars, update, battery, samplerPc,
                    tickSends, tickStale, lastDispatch, edgeGrounded, edgeSeen,
                    pressSeen, takeoffsSinceEdge, lastGood,
                    rawVars, rdVars, shutVars, pureVars, drawFrom, drawSeen,
                    ujCallbacks >>

\* ------------------------------------------------ Indicators sampler thread
SamplerStart ==
    /\ samplerPc = "start"
    /\ update' = TRUE
    /\ samplerPc' = "loop"
    /\ UNCHANGED << ctlVars, appVars, droneVars, battery, rendered, histVars,
                    rawVars, rdVars, shutVars, pureVars, drawVars, tkVars >>

\* the test of `while self.update` succeeds: the thread goes on to get_battery
SamplerCheck ==
    /\ samplerPc = "loop"
    /\ update
    /\ samplerPc' = "poll"
    /\ UNCHANGED << ctlVars, appVars, droneVars, update, battery, rendered, histVars,
                    rawVars, rdVars, shutVars, pureVars, drawVars, tkVars >>

\* the body of the while loop; readOk = FALSE is get_battery() raising, which
\* nothing in update_indicators catches
SamplerPoll(readOk, value) ==
    /\ samplerPc = "poll"
    /\ battery' = BatteryAfterRead(battery, readOk, value)
    /\ samplerPc' = IF readOk THEN "loop" ELSE "dead"
    /\ lastGood' = IF readOk THEN value ELSE lastGood
    /\ drawSeen' = IF drawPc # "idle" THEN drawSeen \cup {battery'} ELSE drawSeen
    /\ UNCHANGED << ctlVars, appVars, droneVars, update, rendered,
                    tickSends, tickStale, lastDispatch, edgeGrounded, edgeSeen,
                    pressSeen, takeoffsSinceEdge, staleFrame,
                    rawVars, rdVars, shutVars, pureVars, drawPc, drawFrom, drawn, tkVars >>

SamplerExit ==
    /\ samplerPc = "loop"
    /\ ~update
    /\ samplerPc' = "done"
    /\ UNCHANGED << ctlVars, appVars, droneVars, update, battery, rendered, histVars,
                    rawVars, rdVars, shutVars, pureVars, drawVars, tkVars >>

\* ------------------------------------------------------------- App.cleanup
\* the window is closed: mainloop returns and run_app's finally runs cleanup,
\* which first clears Indicators.update
CleanupStop ==
    /\ mainPc = "mainloop"
    /\ update' = FALSE
    /\ mainPc' = "cleanup_end"
    /\ UNCHANGED << ctlVars, ujPending, vsPending, joystick_values, rc_controls,
                    flying, droneVars, battery, samplerPc, rendered, histVars,
                    rawVars, rdVars, shutVars, pureVars, drawVars, tkVars >>

\* the rest of cleanup: drone.end(), then root.quit() and exit(); endOk = FALSE
\* is drone.end() raising, which goes straight to the except clause
CleanupRelease(endOk) ==
    /\ mainPc = "cleanup_end"
    /\ endCalled' = IF endOk THEN "ok" ELSE "failed"
    /\ quitCalled' = endOk
    /\ mainPc' = "exited"
    /\ UNCHANGED << ctlVars, ujPending, vsPending, joystick_values, rc_controls,
                    flying, droneVars, indVars, histVars, rawVars, rdVars, pureVars, drawVars, tkVars >>

\* ------------------------------------- XboxController.read() under the monitor
\* a caller enters read() and loads the first channel
ReadBegin ==
    /\ readPos = 0
    /\ readList' = << ctrl[ReadOrder[1]] >>
    /\ readSeen' = {ctrl}
    /\ readPos' = 2
    /\ UNCHANGED << ctlVars, appVars, droneVars, indVars, histVars,
                    rawVars, shutVars, pureVars, drawVars, tkVars >>

\* the next attribute load; after the last one the list is returned
ReadLoad ==
    /\ readPos # 0
    /\ readList' = Append(readList, ctrl[ReadOrder[readPos]])
    /\ readPos' = IF readPos = Len(ReadOrder) THEN 0 ELSE readPos + 1
    /\ UNCHANGED << ctlVars, appVars, droneVars, indVars, histVars,
                    rawVars, readSeen, shutVars, pureVars, drawVars, tkVars >>

\* ------------------------------------------- the pure functions on their own
ApplyNormalize ==
    /\ pureOp = "none"
    /\ pureOp' = "normalize"
    /\ pureOut' = normalize(pureIn)
    /\ UNCHANGED << ctlVars, appVars, droneVars, indVars, histVars,
                    rawVars, rdVars, shutVars, pureIn, drawVars, tkVars >>

ApplyFilterNoise ==
    /\ pureOp = "none"
    /\ pureOp' = "filter_noise"
    /\ pureOut' = filter_noise(pureIn)
    /\ UNCHANGED << ctlVars, appVars, droneVars, indVars, histVars,
                    rawVars, rdVars, shutVars, pureIn, drawVars, tkVars >>

\* the gauge is drawn for a battery percentage
ApplyDraw ==
    /\ pureOp = "none"
    /\ pureIn \in 0..100
    /\ pureOp' = "draw"
    /\ pureOut' = draw_battery_indicator(pureIn)
    /\ UNCHANGED << ctlVars, appVars, droneVars, indVars, histVars,
                    rawVars, rdVars, shutVars, pureIn, drawVars, tkVars >>

\* the channel of XboxController that a trigger event code is stored in
TriggerField(code) == IF code = "ABS_Z" THEN "LeftTrigger" ELSE "RightTrigger"

\* one trigger event with a reading of the trigger's range is applied to a
\* controller at rest; the result is what the trigger channel then holds
ApplyTrigger(code) ==
    /\ pureOp = "none"
    /\ pureIn \in 0..MAX_TRIG_VAL
    /\ pureOp' = code
    /\ pureOut' = ApplyEvent(InitController, code, pureIn)[TriggerField(code)]
    /\ UNCHANGED << ctlVars, appVars, droneVars, indVars, histVars,
                    rawVars, rdVars, shutVars, pureIn, drawVars, tkVars >>

NextPure ==
    \/ ApplyNormalize
    \/ ApplyFilterNoise
    \/ ApplyDraw
    \/ \E code \in TriggerCodes : ApplyTrigger(code)

\* the controller side: monitor thread, both Tk callbacks and command threads,
\* while the window stays open and the sampler thread has not been scheduled
NextControl ==
    \/ \E code \in AxisCodes, state \in RawAxisSamples : MonitorEvent(code, state)
    \/ \E code \in ButtonCodes, state \in {0, 1} : MonitorEvent(code, state)
    \/ MonitorFail
    \/ \E sendOk \in BOOLEAN : UpdateJoystick(sendOk)
    \/ UpdateJoystickToggle
    \/ \E sendOk \in BOOLEAN : UpdateJoystickResume(sendOk)
    \/ \E cmd \in {"takeoff", "land"}, ack \in BOOLEAN : CmdThreadFinish(cmd, ack)
    \/ \E frameOk \in BOOLEAN : VideoStream(frameOk)

\* the telemetry side: sampler thread, both Tk callbacks and shutdown, while
\* the gamepad delivers no event
NextTelemetry ==
    \/ \E sendOk \in BOOLEAN : UpdateJoystick(sendOk)
    \/ \E frameOk \in BOOLEAN : VideoStream(frameOk)
    \/ SamplerStart
    \/ SamplerCheck
    \/ \E readOk \in BOOLEAN, value \in BatterySamples : SamplerPoll(readOk, value)
    \/ SamplerExit
    \/ CleanupStop
    \/ \E endOk \in BOOLEAN : CleanupRelease(endOk)

\* the main block of xbox_one_controller.py: the monitor thread against a
\* loop of read() calls
NextRead ==
    \/ \E code \in AxisCodes, state \in RawAxisSamples : MonitorEvent(code, state)
    \/ \E code \in ButtonCodes, state \in {0, 1} : MonitorEvent(code, state)
    \/ ReadBegin
    \/ ReadLoad

\* video_stream with draw_battery_indicator taken one load at a time, against
\* the sampler thread; update_joystick runs between frames
NextDraw ==
    \/ DrawBegin
    \/ DrawRead
    \/ DrawLabel
    \/ \E sendOk \in BOOLEAN : UpdateJoystick(sendOk)
    \/ SamplerStart
    \/ SamplerCheck
    \/ \E readOk \in BOOLEAN, value \in BatterySamples : SamplerPoll(readOk, value)

Next == NextControl \/ NextTelemetry \/ NextRead \/ NextPure \/ NextDraw

Spec == Init /\ [][Next]_vars

\* the controller side does not read the battery: one starting value
InitControl == Init /\ battery = 100

SpecControl == InitControl /\ [][NextControl]_vars

SpecTelemetry == Init /\ [][NextTelemetry]_vars

SpecRead == InitControl /\ [][NextRead]_vars

SpecDraw == Init /\ [][NextDraw]_vars

\* every raw reading of a joystick axis as the argument
InitPure == InitBase /\ battery = 100 /\ pureIn \in -MAX_JOY_VAL..MAX_JOY_VAL

SpecPure == InitPure /\ [][NextPure]_vars

\* all four tasks together, with shutdown: the gamepad reports one deflection
\* of one stick axis and the button that update_joystick reads
NextTasks ==
    \/ MonitorEvent("ABS_RX", 16384)
    \/ \E state \in {0, 1} : MonitorEvent("BTN_SELECT", state)
    \/ MonitorFail
    \/ \E sendOk \in BOOLEAN : UpdateJoystick(sendOk)
    \/ UpdateJoystickToggle
    \/ \E sendOk \in BOOLEAN : UpdateJoystickResume(sendOk)
    \/ \E cmd \in {"takeoff", "land"}, ack \in BOOLEAN : CmdThreadFinish(cmd, ack)
    \/ \E frameOk \in BOOLEAN : VideoStream(frameOk)
    \/ SamplerStart
    \/ SamplerCheck
    \/ \E readOk \in BOOLEAN, value \in BatterySamples : SamplerPoll(readOk, value)
    \/ SamplerExit
    \/ CleanupStop
    \/ \E endOk \in BOOLEAN : CleanupRelease(endOk)

SpecTasks == InitControl /\ [][NextTasks]_vars

TypeOK ==
    /\ monitorPc \in {"polling", "dead"}
    /\ nEvents \in 0..MaxEvents
    /\ mainPc \in {"start_vs", "start_uj", "mainloop", "uj_sleep", "vs_draw",
                  "cleanup_end", "exited"}
    /\ CmdThreadCount <= MaxCmdThreads
    /\ battery \in BatterySamples
    /\ samplerPc \in {"start", "loop", "poll", "dead", "done"}
    /\ readPos \in 0..Len(ReadOrder)
    /\ flying = FALSE
    /\ drawPc \in {"idle", "test70", "test40", "seg1", "seg2", "seg3", "label"}
    /\ drawPc # "idle" <=> mainPc = "vs_draw"
    /\ ujPending <=> ujCallbacks > 0
    /\ vsPending <=> vsCallbacks > 0

\* ================================================================ claims

\* C1: with raw axis readings in [-32768, 32768], every command handed to
\* send_rc_control has all four components in [-100, 100].
C1_CommandInRange ==
    \A i \in 1..Len(tickSends) : \A k \in 1..4 :
        tickSends[i][k] >= -100 /\ tickSends[i][k] <= 100

\* a full-deflection reading has been sent
C1_Witness ==
    /\ tickSends # << >>
    /\ \E k \in 1..4 : Abs(tickSends[1][k]) = 100

\* C2: every tick that has finished called send_rc_control exactly once, with
\* (0,0,0,0) when the axes of its snapshot were neutral; a tick still in its
\* debounce sleep has sent nothing yet.
C2_OneSendPerTick ==
    /\ mainPc \in {"mainloop", "exited"} =>
          /\ Len(tickSends) = 1
          /\ MapAxes(joystick_values) = Zero => tickSends = << Zero >>
    /\ mainPc = "uj_sleep" => tickSends = << >>

\* a tick with a neutral snapshot has finished
C2_Witness ==
    /\ mainPc = "mainloop"
    /\ MapAxes(joystick_values) = Zero
    /\ tickSends = << Zero >>

\* C3: a rising edge of the toggle level that came while the drone was grounded
\* and that a dispatch tick has read has triggered exactly one takeoff dispatch.
C3_OneTakeoffPerEdge ==
    (edgeGrounded /\ edgeSeen) => takeoffsSinceEdge = 1

\* C4: while the toggle level stays 1 after a tick has seen it, no step starts
\* a further takeoff or land thread.
C4_NoDispatchWhileHeld ==
    [][ (pressSeen /\ ToggleLevel(ctrl) = 1 /\ ToggleLevel(ctrl') = 1) =>
          /\ cmdThreads'.takeoff <= cmdThreads.takeoff
          /\ cmdThreads'.land <= cmdThreads.land ]_vars

\* C5: two successive toggle dispatches are opposite commands: a step that
\* starts a takeoff (land) thread never follows a dispatch of takeoff (land).
C5_DispatchesAlternate ==
    [][ /\ cmdThreads'.takeoff > cmdThreads.takeoff => lastDispatch # "takeoff"
        /\ cmdThreads'.land > cmdThreads.land => lastDispatch # "land" ]_vars

\* C6: whatever the outcome of a tick, the next update_joystick callback is
\* scheduled whenever the main loop is waiting for callbacks.
C6_AlwaysRescheduled == mainPc = "mainloop" => ujPending

\* C7 as claimed: a tick that read its snapshot after the monitor thread
\* stopped delivering events, with the axes frozen at non-neutral values,
\* sends the all-zero hover command.
C7_StaleSendsHover ==
    (tickStale /\ tickSends # << >> /\ MapAxes(read(ctrl)) # Zero)
        => tickSends = << Zero >>

\* C7 as amended: such a tick sends the frozen axis values themselves
\* (lateral = right X, forward/back = right Y, vertical = left Y, yaw = left X),
\* so it sends the all-zero command only when the frozen axes are all zero.
C7_StaleSendsFrozen ==
    (tickStale /\ tickSends # << >>) =>
        tickSends = << << ctrl.RightJoystickX, ctrl.RightJoystickY,
                          ctrl.LeftJoystickY, ctrl.LeftJoystickX >> >>

\* a stale tick has sent a non-zero command
C7_Witness ==
    /\ tickStale
    /\ tickSends # << >>
    /\ tickSends[1] # Zero

\* C8: once a get_battery call has failed the stored battery value is still the
\* last value read successfully, and every frame drawn afterwards shows the
\* gauge of that value.
C8_StaleBatteryKept ==
    /\ samplerPc = "dead" => battery = lastGood
    /\ staleFrame => rendered = draw_battery_indicator(lastGood)

\* a frame has been drawn after a failed poll and shows the stored value
C8_Witness ==
    /\ staleFrame
    /\ samplerPc = "dead"
    /\ rendered.label = battery

\* C9: a failed get_battery call never ends the sampler loop ("dead" is the
\* position the thread reaches only by that failure).
C9_SamplerSurvivesFailure == samplerPc # "dead"

\* C10: a failed get_gamepad call never ends the monitor loop ("dead" is the
\* position the thread reaches only by that failure), so later events are
\* still applied.
C10_MonitorSurvivesFailure == monitorPc # "dead"

\* C11: the list a read() call returns is the controller state as it stood at
\* one instant between the call and the return.
C11_NoTornRead ==
    readPos = 0 => \E c \in readSeen : readList = FieldValues(c)

\* C18: on raw readings r in [-2^15, 2^15] normalize is non-decreasing, rounds
\* r * 100 / 2^15 toward zero, stays in [-100, 100] and maps 2^15, -2^15 and 0
\* to 100, -100 and 0.
C18_NormalizeProperties ==
    pureOp = "normalize" =>
        /\ pureOut >= -100 /\ pureOut <= 100
        /\ pureIn < 32768 => pureOut <= normalize(pureIn + 1)
        /\ Abs(pureOut) * 32768 <= Abs(pureIn) * 100
        /\ Abs(pureIn) * 100 < (Abs(pureOut) + 1) * 32768
        /\ pureIn >= 0 => pureOut >= 0
        /\ pureIn <= 0 => pureOut <= 0
        /\ pureIn = 32768 => pureOut = 100
        /\ pureIn = -32768 => pureOut = -100
        /\ pureIn = 0 => pureOut = 0

\* a negative reading whose quotient is not an integer: -50.003 becomes -50
C18_Witness == pureOp = "normalize" /\ pureIn = -16385 /\ pureOut = -50

\* C19: filter_noise(v) is 0 for -15 <= v <= 15 and v otherwise.
C19_FilterNoise ==
    pureOp = "filter_noise" =>
        /\ (pureIn >= -15 /\ pureIn <= 15) => pureOut = 0
        /\ (pureIn < -15 \/ pureIn > 15) => pureOut = pureIn

\* the threshold itself is filtered out
C19_Witness == pureOp = "filter_noise" /\ pureIn = -15 /\ pureOut = 0

C12_NoPollAfterRelease == endCalled # "no" => samplerPc # "poll"

\* cleanup has cleared Indicators.update
StopIssued == mainPc \in {"cleanup_end", "exited"}

\* C13: once cleanup has issued the stop signal, the sampler loop starts no
\* further iteration (its `while self.update` test never succeeds again).
C13_NoIterationAfterStop ==
    [][ StopIssued => ~(samplerPc = "loop" /\ samplerPc' = "poll") ]_vars

\* C14: while a dispatch tick is inside its debounce sleep, a scheduled
\* video_stream callback is able to run.
C14_RenderDuringDebounce ==
    (mainPc = "uj_sleep" /\ vsPending) => ENABLED VideoStream(TRUE)

\* a next tick of update_joystick is running or will run
DispatchLive ==
    mainPc \in {"start_vs", "start_uj", "uj_sleep"} \/ (mainPc = "mainloop" /\ ujPending)

\* a next video_stream callback will run
RenderLive ==
    mainPc = "start_vs" \/ (mainPc \in {"start_uj", "mainloop", "uj_sleep"} /\ vsPending)

SamplerLive == samplerPc \in {"start", "loop", "poll"}

MonitorLive == monitorPc = "polling"

\* C15: a step in which frame rendering, the telemetry poll or the gamepad
\* read fails leaves the dispatch loop running, and a step in which the
\* dispatch fails leaves the rendering loop and both pollers running.
C15_TaskIsolation ==
    [][ /\ ( /\ \/ VideoStream(FALSE)
                \/ \E value \in BatterySamples : SamplerPoll(FALSE, value)
                \/ MonitorFail
             /\ DispatchLive ) => DispatchLive'
        /\ (UpdateJoystick(FALSE) \/ UpdateJoystickResume(FALSE)) =>
              /\ RenderLive => RenderLive'
              /\ SamplerLive => SamplerLive'
              /\ MonitorLive => MonitorLive' ]_vars

\* rendering and both pollers have failed and a dispatch tick has since run and
\* is scheduled again
C15_Witness ==
    /\ monitorPc = "dead"
    /\ samplerPc = "dead"
    /\ ~vsPending
    /\ tickStale
    /\ mainPc = "mainloop"
    /\ ujPending

\* C16: when drone.end() has failed and cleanup is over, root.quit() and exit()
\* have still been performed.
C16_TeardownCompletes ==
    (mainPc = "exited" /\ endCalled = "failed") => quitCalled

\* C17: a finished tick sent lateral, forward/back, vertical and yaw equal to
\* filter_noise(normalize(r)) of the last raw reading r that had been applied to
\* right-stick-X, right-stick-Y, left-stick-Y and left-stick-X when the tick
\* read the controller; raw 16384 on right-stick-X gives lateral 50.
C17_ChannelMapping ==
    tickSends # << >> =>
        /\ tickSends =
              << << filter_noise(normalize(tickRaw["ABS_RX"])),
                    filter_noise(normalize(tickRaw["ABS_RY"])),
                    filter_noise(normalize(tickRaw["ABS_Y"])),
                    filter_noise(normalize(tickRaw["ABS_X"])) >> >>
        /\ tickRaw["ABS_RX"] = 16384 => tickSends[1][1] = 50

\* a tick has sent lateral 50 for the reading 16384 while another axis was
\* deflected
C17_Witness ==
    /\ tickSends # << >>
    /\ tickRaw["ABS_RX"] = 16384
    /\ tickSends[1][1] = 50
    /\ tickSends[1][4] = -100

\* C21: for every p in 0..100 the gauge colour is red when p < 40, yellow
\* when 40 <= p <= 69 and green when p >= 70; the gauge has that one colour.
C21_ColorBands ==
    pureOp = "draw" =>
        pureOut.color = IF pureIn < 40 THEN "red"
                        ELSE IF pureIn <= 69 THEN "yellow"
                        ELSE "green"

\* the gauge for 70 % is green with 7 segments
C21_Witness ==
    pureOp = "draw" /\ pureIn = 70 /\ pureOut.color = "green" /\ pureOut.segments = 7

\* C22: a trigger event whose reading is the trigger's maximum (2^8, or the
\* largest 8-bit reading 2^8 - 1) leaves 100, or 99 after rounding, in the
\* trigger's channel.
C22_TriggerFullScale ==
    (pureOp \in TriggerCodes /\ pureIn >= MAX_TRIG_VAL - 1) => pureOut >= 99

\* C23: a dispatch tick calls takeoff_land exactly when the Start channel
\* (joystick_values[15], set from BTN_START events) is 1 in the snapshot it
\* read; the Back level (BTN_SELECT) does not decide it.
C23_ToggleOnStart ==
    [][ /\ UpdateJoystickToggle => joystick_values'[16] = 1
        /\ (\E sendOk \in BOOLEAN : UpdateJoystick(sendOk)) => joystick_values'[16] = 0 ]_vars

\* C24: the gauge of a finished frame, colour, number of segments and label,
\* is the gauge of one battery value that Indicators.battery held during the
\* call of draw_battery_indicator.
C24_OneBatteryValuePerFrame ==
    (drawPc = "idle" /\ drawn # NoFrame) =>
        \E b \in drawSeen : drawn = draw_battery_indicator(b)

\* C25: at most one update_joystick callback and at most one video_stream
\* callback is pending in the Tk queue or running.
C25_LoopsNeverMultiply ==
    /\ ujCallbacks + (IF mainPc = "uj_sleep" THEN 1 ELSE 0) <= 1
    /\ vsCallbacks + (IF mainPc = "vs_draw" THEN 1 ELSE 0) <= 1

\* both loops have rescheduled themselves after a tick that toggled
C25_Witness ==
    /\ ujCallbacks = 1
    /\ vsCallbacks = 1
    /\ mainPc = "mainloop"
    /\ lastDispatch = "land"

====
